---- MODULE Spec2Model ----
(***************************************************************************)
(* Model of the index start-up pipeline of the in-house document search    *)
(* application: initialize.setup_vector_store (reuse gate, rebuild path,   *)
(* fallback directory), initialize.create_vectorstore_in_batches (batched  *)
(* indexing) and the start-up section of main.py.                          *)
(*                                                                         *)
(* The external vector store is modelled by what the pipeline drives: a    *)
(* persisted directory holds the chunks inserted so far.  A chunk is       *)
(* identified by its 1-based position in the list `texts`.  External calls *)
(* that can raise (embedding, index write, open, smoke query, rmtree) are  *)
(* nondeterministic: each has a succeeding and a raising step.             *)
(***************************************************************************)
EXTENDS Integers, Sequences, FiniteSets, Bags, TLC

VARIABLES
    disk,               \* filesystem: directory -> persisted index (or absent)
    retriever,          \* st.session_state.retriever
    pc,                 \* position of the script run
    force_rebuild,      \* local force_rebuild of setup_vector_store
    gate,               \* branch the reuse gate took in this run
    documents,          \* len(documents) returned by load_documents
    texts,              \* chunks returned by the splitter
    persist_directory,  \* target of the running create_vectorstore_in_batches
    batch_num,          \* loop variable of create_vectorstore_in_batches
    vectorstore,        \* local vectorstore (directory it is bound to, or None)
    attempts,           \* the calls of create_vectorstore_in_batches of this run
    trace,              \* pipeline stages entered in this run, in order
    screen,             \* messages rendered in this run
    runs,               \* number of script runs started
    embedCalls,         \* chunk-embedding calls issued in this run
    session0,           \* st.session_state.retriever when this run started
    llm_response,       \* payload handed to a display_*_llm_response function
    answer_text,        \* local answer_text of display_contact_llm_response
    content,            \* value returned by the display function
    called,             \* function that has returned, or "raised"
    document,           \* argument of format_document_source
    source_key,         \* value returned by format_document_source
    files,              \* files data_dir.rglob("*") yields, in order
    file_idx,           \* position of the loop of load_documents
    loaded,             \* local list `documents` of load_documents
    mode,               \* st.session_state.mode
    messages,           \* st.session_state.messages
    queryCalls,         \* external calls made by get_llm_response, in order
    chat_message        \* the submitted chat input of this run

startupVars == <<disk, retriever, pc, force_rebuild, gate, documents, texts,
                 persist_directory, batch_num, vectorstore, attempts, trace,
                 screen, runs, embedCalls, session0>>

synthVars == <<llm_response, answer_text, content, called>>

formatVars == <<document, source_key>>

loaderVars == <<files, file_idx, loaded>>

chatVars == <<mode, messages, queryCalls, chat_message>>

\* Everything the start-up pipeline does not touch.
auxVars == <<synthVars, formatVars, loaderVars, chatVars>>

vars == <<startupVars, auxVars>>

----------------------------------------------------------------------------
(* Bounds *)

MaxRuns == 2
MaxChunks == 120
MaxDocs == 1

(* Program constants *)

EMBEDDING_BATCH_SIZE == 50
RETRIEVER_K == 5
CHROMA_DIR == 0

----------------------------------------------------------------------------
(* Values *)

None == -1

\* temp_dir = f".chroma_{uuid.uuid4().hex[:8]}": a name no earlier run used;
\* the fallback directory of run r is named r.
TempDirs == 1..MaxRuns
Dirs == {CHROMA_DIR} \cup TempDirs

\* Path.exists() is false / the directory holds an index whose collection
\* contains `content`; builtFrom is len(texts) of the build that created it.
NoDir == [exists |-> FALSE, content |-> <<>>, builtFrom |-> 0]

\* Exception text interpolated into a rendered message; none for a message
\* of fixed text.
NoDetail == ""

\* A message rendered with st.error / st.warning from a literal.
Plain(text) == [icon |-> "", text |-> text, contact |-> FALSE, detail |-> NoDetail]

\* A message rendered from an f-string that interpolates the exception e.
WithDetail(text, e) == [icon |-> "", text |-> text, contact |-> FALSE, detail |-> e]

\* utils.build_error_message(base_message): the error icon, the message and
\* the request to contact the administrator.
build_error_message(base_message) ==
    [icon |-> "ERROR_ICON", text |-> base_message, contact |-> TRUE,
     detail |-> NoDetail]

RetrieverNone == [vectorstore |-> None, k |-> 0]

as_retriever(vs) == [vectorstore |-> vs, k |-> RETRIEVER_K]

\* Numbers of chunks the splitter may return in the start-up model.
ChunkCounts == {n \in 0..MaxChunks : n % EMBEDDING_BATCH_SIZE \in {0, 20}}

Range(n) == [i \in 1..n |-> i]

Min(a, b) == IF a < b THEN a ELSE b

----------------------------------------------------------------------------
(* create_vectorstore_in_batches: batch arithmetic *)

\* TotalBatches with floor division instead of math.ceil.
TotalBatches_Floor(total_chunks) == total_chunks \div EMBEDDING_BATCH_SIZE

\* math.ceil(total_chunks / batch_size)
TotalBatches(total_chunks) ==
    IF total_chunks % EMBEDDING_BATCH_SIZE = 0
    THEN total_chunks \div EMBEDDING_BATCH_SIZE
    ELSE (total_chunks \div EMBEDDING_BATCH_SIZE) + 1

StartIdx(b) == b * EMBEDDING_BATCH_SIZE

EndIdx(b, total_chunks) == Min((b + 1) * EMBEDDING_BATCH_SIZE, total_chunks)

\* BatchTexts whose slice stops one chunk early.
BatchTexts_ShortSlice(t, b) == SubSeq(t, StartIdx(b) + 1, EndIdx(b, Len(t)) - 1)

\* texts[start_idx:end_idx] (0-based, end exclusive) as 1-based positions
BatchTexts(t, b) == SubSeq(t, StartIdx(b) + 1, EndIdx(b, Len(t)))

\* BatchOp that creates the index for every batch.
BatchOp_AlwaysCreate(b) == "from_documents"

\* batch_num == 0 selects Chroma.from_documents, otherwise add_documents
BatchOp(b) == IF b = 0 THEN "from_documents" ELSE "add_documents"

Last(s) == s[Len(s)]

SetLast(s, x) == [s EXCEPT ![Len(s)] = x]

NewAttempt(dir) == [dir |-> dir, result |-> "running", calls |-> <<>>]

CallRec(b, t) ==
    [op |-> BatchOp(b), batch |-> b,
     first |-> StartIdx(b) + 1, last |-> EndIdx(b, Len(t)),
     docs |-> BatchTexts(t, b)]

LogCall(as, b, t) ==
    SetLast(as, [Last(as) EXCEPT !.calls = Append(@, CallRec(b, t))])

SetResult(as, r) == SetLast(as, [Last(as) EXCEPT !.result = r])

\* Effect on the directory of a batch that is inserted: from_documents opens
\* (creating if needed) the collection at persist_directory and inserts,
\* add_documents inserts into the collection the handle is bound to.
Insert(d, dir, batch, n) ==
    [d EXCEPT ![dir] = [exists |-> TRUE,
                        content |-> d[dir].content \o batch,
                        builtFrom |-> IF d[dir].exists THEN d[dir].builtFrom ELSE n]]

----------------------------------------------------------------------------
(* components.format_document_source *)

(* Bounds *)

MaxPage == 4

\* A string is modelled by the parts the code distinguishes.  A file name is
\* its stem and its extension; a path is its directory and its file name.
Stems == {"plan", "notes"}
Exts == {".pdf", ".PDF", ".txt"}
Names == [base : Stems, ext : Exts]
NoName == [base |-> "", ext |-> ""]
Paths == [dir : {"data"}, name : [base : {"plan"}, ext : {".pdf", ".txt"}]]
NoPath == [dir |-> "", name |-> NoName]

\* str.lower() on an extension
LowerExt(e) == IF e = ".PDF" THEN ".pdf" ELSE e

\* file_name.lower().endswith(".pdf")
EndsWithPdf(file_name) == LowerExt(file_name.ext) = ".pdf"

\* document.metadata["source"].split("/")[-1]
Basename(path) == path.name

\* ct.PAGE_DISPLAY_FORMAT, the format string with the placeholder {page}
PAGE_DISPLAY_FORMAT == "PAGE_DISPLAY_FORMAT"

\* ct.PAGE_DISPLAY_FORMAT.format(page=page_num)
PageDisplay(page_num) == [fmt |-> PAGE_DISPLAY_FORMAT, page |-> page_num]

\* page_info = ""
NoPageInfo == [fmt |-> "", page |-> 0]

\* The literal file name used when no metadata key names the file.
UnknownFile == [base |-> "UNKNOWN_FILE", ext |-> ""]

\* The literal returned by the except clause of format_document_source.
SourceError == [file_name |-> [base |-> "SOURCE_FORMAT_ERROR", ext |-> ""],
                page_info |-> NoPageInfo]

MetaKeys == {"source_file", "source", "page_number", "page"}

\* A retrieved document: hasMeta is false for an object without a metadata
\* mapping; keys are the metadata keys present; a field whose key is absent
\* holds a filler value that is never read.
Doc(ks, sf, src, pn, pg) ==
    [hasMeta |-> TRUE, keys |-> ks, source_file |-> sf, source |-> src,
     page_number |-> pn, page |-> pg]

Malformed ==
    [hasMeta |-> FALSE, keys |-> {}, source_file |-> NoName, source |-> NoPath,
     page_number |-> 0, page |-> 0]

AllDocs ==
    {Malformed} \cup
    {Doc(ks, sf, src, pn, pg) :
        ks \in SUBSET MetaKeys, sf \in Names \cup {NoName},
        src \in Paths \cup {NoPath}, pn \in 0..MaxPage, pg \in 0..MaxPage}

\* The filler convention: a field is NoName / NoPath / 0 iff its key is absent.
WellFormedDoc(d) ==
    /\ ("source_file" \in d.keys) <=> (d.source_file # NoName)
    /\ ("source" \in d.keys) <=> (d.source # NoPath)
    /\ ("page_number" \notin d.keys) => d.page_number = 0
    /\ ("page" \notin d.keys) => d.page = 0

Documents == {d \in AllDocs : WellFormedDoc(d)}

\* format_document_source that prefers the 0-based page field.
FormatSource_PageFirst(doc) ==
    IF ~doc.hasMeta
    THEN SourceError
    ELSE LET file_name ==
                 IF "source_file" \in doc.keys THEN doc.source_file
                 ELSE IF "source" \in doc.keys THEN Basename(doc.source)
                 ELSE UnknownFile
         IN IF EndsWithPdf(file_name)
            THEN [file_name |-> file_name,
                  page_info |->
                     IF "page" \in doc.keys THEN PageDisplay(doc.page + 1)
                     ELSE IF "page_number" \in doc.keys
                          THEN PageDisplay(doc.page_number)
                          ELSE NoPageInfo]
            ELSE [file_name |-> file_name, page_info |-> NoPageInfo]

\* format_document_source(document, is_main): the citation string, as the
\* file name followed by the page suffix.
FormatSource(doc) ==
    IF ~doc.hasMeta
    THEN SourceError
    ELSE LET file_name ==
                 IF "source_file" \in doc.keys THEN doc.source_file
                 ELSE IF "source" \in doc.keys THEN Basename(doc.source)
                 ELSE UnknownFile
         IN IF EndsWithPdf(file_name)
            THEN [file_name |-> file_name,
                  page_info |->
                     IF "page_number" \in doc.keys
                     THEN PageDisplay(doc.page_number)
                     ELSE IF "page" \in doc.keys
                          THEN PageDisplay(doc.page + 1)
                          ELSE NoPageInfo]
            ELSE [file_name |-> file_name, page_info |-> NoPageInfo]

NoSourceKey == [file_name |-> NoName, page_info |-> NoPageInfo]

FormatIdle ==
    /\ document = Malformed
    /\ source_key = NoSourceKey

----------------------------------------------------------------------------
(* components.display_search_llm_response, display_contact_llm_response *)

(* Bounds *)

MaxSources == 4

\* A text is None or a string; a string is the sequence of its pieces.
Str(toks) == [null |-> FALSE, toks |-> toks]
NoneText == [null |-> TRUE, toks |-> <<>>]

\* ct.NO_RELEVANT_DOCS_CONTACT, as its two halves
NO_RELEVANT_DOCS_CONTACT == <<"NO_RELEVANT_INFO_1", "NO_RELEVANT_INFO_2">>

\* The default of llm_response.get("answer", ...)
ANSWER_NOT_FOUND == <<"ANSWER_NOT_FOUND">>

\* str.lower() on one piece, and on a string
LowerTok(t) == IF t = "A" THEN "a" ELSE IF t = "EXTRA" THEN "extra" ELSE t
Lower(toks) == [i \in 1..Len(toks) |-> LowerTok(toks[i])]

\* needle in hay
Contains(hay, needle) ==
    \E i \in 0..(Len(hay) - Len(needle)) :
        SubSeq(hay, i + 1, i + Len(needle)) = needle

\* Values of a result / answer field.
Texts ==
    {NoneText, Str(<<>>), Str(<<"a">>),
     Str(NO_RELEVANT_DOCS_CONTACT \o <<"EXTRA">>),
     Str(<<"A", "NO_RELEVANT_INFO_1">>)}

\* Documents a payload may cite: the same page of a PDF named through
\* page_number and through the 0-based page, and two other files.
DocA == Doc({"source_file", "page_number"}, [base |-> "plan", ext |-> ".pdf"], NoPath, 1, 0)
DocA0 == Doc({"source_file", "page"}, [base |-> "plan", ext |-> ".pdf"], NoPath, 0, 0)
DocB == Doc({"source_file"}, [base |-> "notes", ext |-> ".txt"], NoPath, 0, 0)
DocC == Doc({"source"}, NoName, [dir |-> "data", name |-> [base |-> "plan", ext |-> ".txt"]], 0, 0)
DocPool == {DocA, DocA0, DocB, DocC}

RECURSIVE SeqsUpTo(_, _)
SeqsUpTo(S, n) ==
    IF n = 0 THEN {<<>>}
    ELSE LET shorter == SeqsUpTo(S, n - 1)
         IN shorter \cup {Append(q, x) : q \in {r \in shorter : Len(r) = n - 1}, x \in S}

PayloadKeys == {"result", "answer", "source_documents"}

\* A payload: a dict with the given keys, an object with the given attributes
\* ("object"), or a value that is neither a dict nor has any of them (shape
\* "other", no keys).  A field whose key is absent holds a filler.
Payload(shape, ks, r, a, sd) ==
    [shape |-> shape, keys |-> ks, result |-> r, answer |-> a,
     source_documents |-> sd]

\* A field of a payload: absent, or present with a value.
Absent(filler) == [has |-> FALSE, v |-> filler]
Present(V) == [has : {TRUE}, v : V]

FieldKeys(r, a, sd) ==
    (IF r.has THEN {"result"} ELSE {})
    \cup (IF a.has THEN {"answer"} ELSE {})
    \cup (IF sd.has THEN {"source_documents"} ELSE {})

Payloads ==
    {Payload(sh, FieldKeys(r, a, sd), r.v, a.v, sd.v) :
        sh \in {"dict", "object"},
        r \in {Absent(NoneText)} \cup Present(Texts),
        a \in {Absent(NoneText)} \cup Present(Texts),
        sd \in {Absent(<<>>)} \cup Present(SeqsUpTo(DocPool, MaxSources))}

OtherPayload == Payload("other", {}, NoneText, NoneText, <<>>)

\* Truth value of a text: None and "" are falsy.
Truthy(t) == ~t.null /\ t.toks # <<>>

\* One rendered line of the returned content.
Line(tag, n, text, cite) == [tag |-> tag, n |-> n, text |-> text, cite |-> cite]
Fixed(tag) == Line(tag, 0, NoneText, NoSourceKey)

RECURSIVE UniqueDocs_LastSeen(_)
\* UniqueDocs that moves a repeated citation to the end (last occurrence).
UniqueDocs_LastSeen(source_documents) ==
    IF source_documents = <<>> THEN <<>>
    ELSE LET front == UniqueDocs_LastSeen(SubSeq(source_documents, 1, Len(source_documents) - 1))
             source_key_ == FormatSource(source_documents[Len(source_documents)])
             IsOther(c) == c # source_key_
         IN Append(SelectSeq(front, IsOther), source_key_)

RECURSIVE UniqueDocs(_)
\* unique_docs.keys(): the citation strings of source_documents, each kept
\* at its first occurrence (dict insertion order).
UniqueDocs(source_documents) ==
    IF source_documents = <<>> THEN <<>>
    ELSE LET front == UniqueDocs(SubSeq(source_documents, 1, Len(source_documents) - 1))
             source_key_ == FormatSource(source_documents[Len(source_documents)])
         IN IF \E i \in 1..Len(front) : front[i] = source_key_
            THEN front
            ELSE Append(front, source_key_)

NoContent == <<>>

SynthIdle ==
    /\ llm_response = OtherPayload
    /\ answer_text = NoneText
    /\ content = NoContent
    /\ called = "none"

\* SourceDocuments that reads the field of a dict only.
SourceDocuments_DictOnly(p) ==
    IF p.shape = "dict" /\ "source_documents" \in p.keys
    THEN p.source_documents
    ELSE <<>>

\* source_documents as the display functions read it: .get(key, []) on a
\* dict, the attribute (default []) on an object, [] otherwise.
SourceDocuments(p) ==
    IF p.shape \in {"dict", "object"} /\ "source_documents" \in p.keys
    THEN p.source_documents
    ELSE <<>>

\* The numbered lines "{i}. {source_name}" for the citations cites[from..].
Items(cites, from) ==
    [i \in 1..(Len(cites) - from + 1) |->
        Line("ITEM", i, NoneText, cites[from + i - 1])]

\* Result of a try body: an exception, or the returned content.
Returned(at, c) == [raised |-> FALSE, answer_text |-> at, content |-> c]
Raised(at) == [raised |-> TRUE, answer_text |-> at, content |-> NoContent]

\* The try body of display_search_llm_response.
SearchBody(p) ==
    LET source_documents == SourceDocuments(p)
        unique_docs == UniqueDocs(source_documents)
    IN IF source_documents # <<>>
       THEN Returned(NoneText,
                <<Fixed("SEARCH_HEADER"), Fixed("BLANK"),
                  Line("MAIN_REFERENCE", 0, NoneText, unique_docs[1]),
                  Fixed("BLANK")>>
                \o (IF Len(unique_docs) > 1
                    THEN <<Fixed("OTHER_REFERENCES_HEADER")>> \o Items(unique_docs, 2)
                    ELSE <<>>))
       ELSE Returned(NoneText, <<Fixed("NO_RELEVANT_DOCS_SEARCH")>>)

\* Lines 141-158 of display_contact_llm_response: the answer text, or not
\* found when the payload matches no branch.
ExtractAnswer(p) ==
    IF p.shape = "dict"
    THEN [found |-> TRUE,
          answer_text |-> IF "result" \in p.keys THEN p.result
                          ELSE IF "answer" \in p.keys THEN p.answer
                          ELSE Str(ANSWER_NOT_FOUND)]
    ELSE IF p.shape = "object" /\ "result" \in p.keys /\ Truthy(p.result)
    THEN [found |-> TRUE, answer_text |-> p.result]
    ELSE IF p.shape = "object" /\ "answer" \in p.keys /\ Truthy(p.answer)
    THEN [found |-> TRUE, answer_text |-> p.answer]
    ELSE [found |-> FALSE, answer_text |-> NoneText]

\* The no-info test applied only to an answer equal to the phrase.
IsNoInfo_ExactOnly(at) == Lower(at.toks) = Lower(NO_RELEVANT_DOCS_CONTACT)

\* ct.NO_RELEVANT_DOCS_CONTACT.lower() in answer_text.lower()
IsNoInfo(at) == Contains(Lower(at.toks), Lower(NO_RELEVANT_DOCS_CONTACT))

\* The try body of display_contact_llm_response.
ContactBody(p) ==
    LET ex == ExtractAnswer(p)
        at == ex.answer_text
        source_documents == SourceDocuments(p)
        unique_docs == UniqueDocs(source_documents)
    IN IF ~ex.found
       THEN Returned(NoneText, <<Fixed("UNEXPECTED_FORMAT")>>)
       ELSE IF at.null
       THEN Raised(at)         \* None has no attribute lower
       ELSE IF IsNoInfo(at)
       THEN Returned(at, <<Fixed("NO_RELEVANT_DOCS_CONTACT")>>)
       ELSE Returned(at,
                <<Line("ANSWER", 0, at, NoSourceKey)>>
                \o (IF source_documents # <<>> /\ Len(unique_docs) > 0
                    THEN <<Fixed("REFERENCES_HEADER")>> \o Items(unique_docs, 1)
                    ELSE <<>>))

\* An except clause that re-raises.
CatchAll_Reraise(r) == r

\* except Exception: log, render and return the fixed display-error text.
CatchAll(r) ==
    IF r.raised
    THEN Returned(r.answer_text, <<Fixed("DISPLAY_ERROR")>>)
    ELSE r

----------------------------------------------------------------------------
(* load_documents: the scan of the data directory *)

MaxFiles == 3
MaxUnits == 2

\* ct.SUPPORTED_EXTENSIONS
SUPPORTED_EXTENSIONS == {".pdf", ".docx", ".csv", ".txt"}

\* Suffixes of the entries found under the data directory.
Suffixes == {".pdf", ".PDF", ".docx", ".csv", ".txt", ".md"}

\* Paths yielded by data_dir.rglob("*")
FilePaths == [dir : {"data"}, name : [base : {"plan"}, ext : Suffixes]]

\* file_path.name
FileName(file_path) == file_path.name

\* file_path.suffix.lower()
Suffix(file_path) == LowerExt(file_path.name.ext)

\* The number of documents a reader can return for a file: one per page of
\* a PDF, one per row of a CSV, one for a whole word or text file.
UnitCounts(file_path) ==
    IF Suffix(file_path) \in {".pdf", ".csv"} THEN 0..MaxUnits
    ELSE IF Suffix(file_path) \in {".docx", ".txt"} THEN {1}
    ELSE {0}

\* An entry of the scan: whether it is a regular file, whether its reader
\* succeeds (ok) and how many documents the reader returns.  An entry that
\* is never read has ok = TRUE and units = 0.
Entries ==
    {[path |-> p, is_file |-> isf, ok |-> o, units |-> n] :
        p \in FilePaths, isf \in BOOLEAN, o \in BOOLEAN, n \in 0..MaxUnits}

Readable(e) == e.is_file /\ Suffix(e.path) \in SUPPORTED_EXTENSIONS

WellFormedEntry(e) ==
    /\ Readable(e) /\ e.ok => e.units \in UnitCounts(e.path)
    /\ ~(Readable(e) /\ e.ok) => e.units = 0
    /\ ~Readable(e) => e.ok

\* Directory listings: sequences of entries with pairwise distinct paths.
RECURSIVE Listings(_)
Listings(n) ==
    IF n = 0 THEN {<<>>}
    ELSE LET shorter == Listings(n - 1)
         IN shorter \cup
            {Append(l, e) : l \in {s \in shorter : Len(s) = n - 1},
                            e \in {x \in Entries : WellFormedEntry(x)}}

DistinctPaths(l) ==
    \A i, j \in 1..Len(l) : i # j => l[i].path # l[j].path

\* The documents a reader returns for a file, before load_documents tags
\* them: every reader records the path under "source"; the PDF reader also
\* records the 0-based page index under "page".
ReaderDocs(e) ==
    [i \in 1..e.units |->
        [keys |-> IF Suffix(e.path) = ".pdf" THEN {"source", "page"}
                  ELSE {"source"},
         source |-> e.path,
         page |-> IF Suffix(e.path) = ".pdf" THEN i - 1 ELSE 0,
         source_file |-> NoName,
         page_number |-> 0,
         file_type |-> ""]]

\* The PDF branch storing the enumerate index unchanged.
TagPdf_ZeroBased(docs, file_path) ==
    [i \in 1..Len(docs) |->
        [docs[i] EXCEPT
            !.keys = @ \cup {"source_file", "page_number", "file_type"},
            !.source_file = FileName(file_path),
            !.page_number = i - 1,
            !.file_type = "PDF"]]

\* for i, doc in enumerate(docs): the TLA+ index is i + 1
TagPdf(docs, file_path) ==
    [i \in 1..Len(docs) |->
        [docs[i] EXCEPT
            !.keys = @ \cup {"source_file", "page_number", "file_type"},
            !.source_file = FileName(file_path),
            !.page_number = (i - 1) + 1,
            !.file_type = "PDF"]]

\* The branches for word, CSV and text files leaving out source_file.
TagOther_NoSourceFile(docs, file_path, type) ==
    [i \in 1..Len(docs) |->
        [docs[i] EXCEPT
            !.keys = @ \cup {"file_type"},
            !.file_type = type]]

\* for doc in docs: source_file and file_type
TagOther(docs, file_path, type) ==
    [i \in 1..Len(docs) |->
        [docs[i] EXCEPT
            !.keys = @ \cup {"source_file", "file_type"},
            !.source_file = FileName(file_path),
            !.file_type = type]]

\* The if / elif chain on file_path.suffix.lower()
LoadFile(e) ==
    IF Suffix(e.path) = ".pdf" THEN TagPdf(ReaderDocs(e), e.path)
    ELSE IF Suffix(e.path) = ".docx"
         THEN TagOther(ReaderDocs(e), e.path, "DOCX")
    ELSE IF Suffix(e.path) = ".csv"
         THEN TagOther(ReaderDocs(e), e.path, "CSV")
    ELSE IF Suffix(e.path) = ".txt"
         THEN TagOther(ReaderDocs(e), e.path, "TXT")
    ELSE <<>>

LoaderIdle ==
    /\ files = <<>>
    /\ file_idx = 0
    /\ loaded = <<>>

ANSWER_MODE_1 == "ANSWER_MODE_1"
ANSWER_MODE_2 == "ANSWER_MODE_2"

\* chat_message when nothing was submitted
NoMessage == ""

ChatIdle ==
    /\ mode = ANSWER_MODE_1
    /\ messages = <<>>
    /\ queryCalls = <<>>
    /\ chat_message = NoMessage

----------------------------------------------------------------------------
\* State before the first script run.
StartupIdle ==
    /\ disk = [d \in Dirs |-> NoDir]
    /\ retriever = RetrieverNone
    /\ pc = "idle"
    /\ force_rebuild = FALSE
    /\ gate = "none"
    /\ documents = 0
    /\ texts = <<>>
    /\ persist_directory = None
    /\ batch_num = 0
    /\ vectorstore = None
    /\ attempts = <<>>
    /\ trace = <<>>
    /\ screen = {}
    /\ runs = 0
    /\ embedCalls = 0
    /\ session0 = RetrieverNone

Init ==
    /\ StartupIdle
    /\ FormatIdle /\ SynthIdle /\ LoaderIdle /\ ChatIdle

\* main.py is run from the top: by a new process (new session, retriever
\* initialised to None) or as a rerun in the same session (retriever kept).
\* initialize() -> initialize_session_state(), then setup_vector_store reads
\* the force-rebuild environment flag.
Startup(newSession, force) ==
    /\ pc \in {"idle", "done", "stopped"}
    /\ runs < MaxRuns
    /\ runs' = runs + 1
    /\ retriever' = IF newSession THEN RetrieverNone ELSE retriever
    /\ session0' = retriever'
    /\ force_rebuild' = force
    /\ gate' = "none"
    /\ documents' = 0
    /\ texts' = <<>>
    /\ persist_directory' = None
    /\ batch_num' = 0
    /\ vectorstore' = None
    /\ attempts' = <<>>
    /\ trace' = <<>>
    /\ screen' = {}
    /\ embedCalls' = 0
    /\ pc' = "gate"
    /\ UNCHANGED disk
    /\ UNCHANGED auxVars

\* Fatal without st.stop(): the script goes on after the error message.
Fatal_NoStop ==
    /\ pc' = "done"
    /\ screen' = screen \cup {build_error_message("INITIALIZE_ERROR_MESSAGE")}

\* The exception leaves setup_vector_store (logged and re-raised by its outer
\* handler) and initialize(); main.py logs it, renders the fixed
\* initialisation error message and calls st.stop().
Fatal ==
    /\ pc' = "stopped"
    /\ screen' = screen \cup {build_error_message("INITIALIZE_ERROR_MESSAGE")}

\* OpenAIEmbeddings() raises (e.g. no API key).
EmbeddingsFail ==
    /\ pc = "gate"
    /\ Fatal
    /\ UNCHANGED <<disk, retriever, force_rebuild, gate, documents, texts,
                   persist_directory, batch_num, vectorstore, attempts, trace,
                   runs, embedCalls, session0>>
    /\ UNCHANGED auxVars

\* chroma_dir.exists() and not force_rebuild
GateOpen == disk[CHROMA_DIR].exists /\ ~force_rebuild

\* ReuseExisting without its `return`: control falls through to the rebuild.
ReuseExisting_NoReturn ==
    /\ pc = "gate"
    /\ GateOpen
    /\ gate' = "REUSABLE"
    /\ vectorstore' = CHROMA_DIR
    /\ retriever' = as_retriever(CHROMA_DIR)
    /\ pc' = "load"
    /\ UNCHANGED <<disk, force_rebuild, documents, texts, persist_directory,
                   batch_num, attempts, trace, screen, runs, embedCalls,
                   session0>>
    /\ UNCHANGED auxVars

\* The existing index opens and the smoke query returns: the retriever over
\* it is stored and setup_vector_store returns.
ReuseExisting ==
    /\ pc = "gate"
    /\ GateOpen
    /\ gate' = "REUSABLE"
    /\ vectorstore' = CHROMA_DIR
    /\ retriever' = as_retriever(CHROMA_DIR)
    /\ pc' = "done"
    /\ UNCHANGED <<disk, force_rebuild, documents, texts, persist_directory,
                   batch_num, attempts, trace, screen, runs, embedCalls,
                   session0>>
    /\ UNCHANGED auxVars

\* OpenFails whose handler re-raises instead of falling through.
OpenFails_Reraise ==
    /\ pc = "gate"
    /\ GateOpen
    /\ gate' = "STALE"
    /\ Fatal
    /\ UNCHANGED <<disk, retriever, force_rebuild, documents, texts,
                   persist_directory, batch_num, vectorstore, attempts, trace,
                   runs, embedCalls, session0>>
    /\ UNCHANGED auxVars

\* Chroma(...) or similarity_search("test", k=1) raises: the inner handler
\* logs a warning and control falls through to the rebuild code.
OpenFails ==
    /\ pc = "gate"
    /\ GateOpen
    /\ gate' = "STALE"
    /\ pc' = "load"
    /\ UNCHANGED <<disk, retriever, force_rebuild, documents, texts,
                   persist_directory, batch_num, vectorstore, attempts, trace,
                   screen, runs, embedCalls, session0>>
    /\ UNCHANGED auxVars

\* No directory, or the force-rebuild flag is set: the reuse block is skipped.
NoReuse ==
    /\ pc = "gate"
    /\ ~GateOpen
    /\ gate' = IF force_rebuild THEN "FORCED" ELSE "ABSENT"
    /\ pc' = "load"
    /\ UNCHANGED <<disk, retriever, force_rebuild, documents, texts,
                   persist_directory, batch_num, vectorstore, attempts, trace,
                   screen, runs, embedCalls, session0>>
    /\ UNCHANGED auxVars

\* documents = load_documents(); an empty list warns and returns.
LoadDocuments(d) ==
    /\ pc = "load"
    /\ documents' = d
    /\ trace' = Append(trace, "load")
    /\ IF d = 0
       THEN /\ screen' = screen \cup {Plain("WARN_NO_DOCUMENTS")}
            /\ pc' = "done"
       ELSE /\ screen' = screen
            /\ pc' = "chunk"
    /\ UNCHANGED <<disk, retriever, force_rebuild, gate, texts,
                   persist_directory, batch_num, vectorstore, attempts, runs,
                   embedCalls, session0>>
    /\ UNCHANGED auxVars

\* texts = text_splitter.split_documents(documents)
SplitDocuments(n) ==
    /\ pc = "chunk"
    /\ texts' = Range(n)
    /\ trace' = Append(trace, "chunk")
    /\ pc' = "delete"
    /\ UNCHANGED <<disk, retriever, force_rebuild, gate, documents,
                   persist_directory, batch_num, vectorstore, attempts, screen,
                   runs, embedCalls, session0>>
    /\ UNCHANGED auxVars

\* Entry of create_vectorstore_in_batches(texts, embeddings, dir, logger)
EnterBuild(dir) ==
    /\ persist_directory' = dir
    /\ batch_num' = 0
    /\ vectorstore' = None
    /\ attempts' = Append(attempts, NewAttempt(dir))
    /\ pc' = "build"

\* DeleteDir that forgets the rmtree.
DeleteDir_NoRmtree ==
    /\ pc = "delete"
    /\ disk' = disk
    /\ trace' = Append(trace, "index")
    /\ EnterBuild(CHROMA_DIR)
    /\ UNCHANGED <<retriever, force_rebuild, gate, documents, texts, screen,
                   runs, embedCalls, session0>>
    /\ UNCHANGED auxVars

\* if chroma_dir.exists(): shutil.rmtree(chroma_dir); then the primary build
\* is entered.
DeleteDir ==
    /\ pc = "delete"
    /\ disk' = [disk EXCEPT ![CHROMA_DIR] = NoDir]
    /\ trace' = (IF disk[CHROMA_DIR].exists THEN Append(trace, "rmtree") ELSE trace)
                    \o <<"index">>
    /\ EnterBuild(CHROMA_DIR)
    /\ UNCHANGED <<retriever, force_rebuild, gate, documents, texts, screen,
                   runs, embedCalls, session0>>
    /\ UNCHANGED auxVars

\* shutil.rmtree raises.
RmtreeFails ==
    /\ pc = "delete"
    /\ disk[CHROMA_DIR].exists
    /\ trace' = Append(trace, "rmtree")
    /\ Fatal
    /\ UNCHANGED <<disk, retriever, force_rebuild, gate, documents, texts,
                   persist_directory, batch_num, vectorstore, attempts, runs,
                   embedCalls, session0>>
    /\ UNCHANGED auxVars

\* One iteration of the batch loop whose call returns.
BatchOk ==
    /\ pc = "build"
    /\ batch_num < TotalBatches(Len(texts))
    /\ LET dir == IF BatchOp(batch_num) = "from_documents"
                  THEN persist_directory ELSE vectorstore
       IN /\ disk' = Insert(disk, dir, BatchTexts(texts, batch_num), Len(texts))
          /\ vectorstore' = dir
    /\ attempts' = LogCall(attempts, batch_num, texts)
    /\ embedCalls' = embedCalls + 1
    /\ batch_num' = batch_num + 1
    /\ UNCHANGED <<retriever, pc, force_rebuild, gate, documents, texts,
                   persist_directory, trace, screen, runs, session0>>
    /\ UNCHANGED auxVars

\* BatchFail whose handler logs without re-raising: the loop goes on.
BatchFail_Swallow(created) ==
    /\ pc = "build"
    /\ batch_num < TotalBatches(Len(texts))
    /\ disk' = IF BatchOp(batch_num) = "from_documents" /\ created
               THEN Insert(disk, persist_directory, <<>>, Len(texts))
               ELSE disk
    /\ attempts' = LogCall(attempts, batch_num, texts)
    /\ embedCalls' = embedCalls + 1
    /\ batch_num' = batch_num + 1
    /\ UNCHANGED <<retriever, pc, force_rebuild, gate, documents, texts,
                   persist_directory, vectorstore, trace, screen, runs,
                   session0>>
    /\ UNCHANGED auxVars

\* One iteration of the batch loop whose call raises: logged and re-raised out
\* of create_vectorstore_in_batches.  from_documents may have created the
\* (empty) directory before failing.  A failure of the primary build is caught
\* by setup_vector_store, a failure of the retry is re-raised.
BatchFail(created) ==
    /\ pc = "build"
    /\ batch_num < TotalBatches(Len(texts))
    /\ disk' = IF BatchOp(batch_num) = "from_documents" /\ created
               THEN Insert(disk, persist_directory, <<>>, Len(texts))
               ELSE disk
    /\ attempts' = SetResult(LogCall(attempts, batch_num, texts), "raised")
    /\ embedCalls' = embedCalls + 1
    /\ vectorstore' = None
    /\ IF Len(attempts) = 1
       THEN pc' = "fallback" /\ screen' = screen
       ELSE Fatal
    /\ UNCHANGED <<retriever, force_rebuild, gate, documents, texts,
                   persist_directory, batch_num, trace, runs, session0>>
    /\ UNCHANGED auxVars

\* The loop is exhausted: return vectorstore.
BuildReturn ==
    /\ pc = "build"
    /\ batch_num = TotalBatches(Len(texts))
    /\ attempts' = SetResult(attempts, "returned")
    /\ pc' = "expose"
    /\ UNCHANGED <<disk, retriever, force_rebuild, gate, documents, texts,
                   persist_directory, batch_num, vectorstore, trace, screen,
                   runs, embedCalls, session0>>
    /\ UNCHANGED auxVars

\* FallbackStart that retries against the primary directory.
FallbackStart_SameDir ==
    /\ pc = "fallback"
    /\ EnterBuild(CHROMA_DIR)
    /\ UNCHANGED <<disk, retriever, force_rebuild, gate, documents, texts,
                   trace, screen, runs, embedCalls, session0>>
    /\ UNCHANGED auxVars

\* except Exception: retry the whole build in a directory with a new name.
FallbackStart ==
    /\ pc = "fallback"
    /\ EnterBuild(runs)
    /\ UNCHANGED <<disk, retriever, force_rebuild, gate, documents, texts,
                   trace, screen, runs, embedCalls, session0>>
    /\ UNCHANGED auxVars

\* retriever = vectorstore.as_retriever(...); stored in the session.
ExposeRetriever ==
    /\ pc = "expose"
    /\ vectorstore # None
    /\ retriever' = as_retriever(vectorstore)
    /\ pc' = "done"
    /\ UNCHANGED <<disk, force_rebuild, gate, documents, texts,
                   persist_directory, batch_num, vectorstore, attempts, trace,
                   screen, runs, embedCalls, session0>>
    /\ UNCHANGED auxVars

\* The build returned None (no batch ran): None.as_retriever raises.
ExposeFails ==
    /\ pc = "expose"
    /\ vectorstore = None
    /\ Fatal
    /\ UNCHANGED <<disk, retriever, force_rebuild, gate, documents, texts,
                   persist_directory, batch_num, vectorstore, attempts, trace,
                   runs, embedCalls, session0>>
    /\ UNCHANGED auxVars

Next ==
    \/ \E newSession \in BOOLEAN, force \in BOOLEAN : Startup(newSession, force)
    \/ EmbeddingsFail
    \/ ReuseExisting
    \/ OpenFails
    \/ NoReuse
    \/ \E d \in 0..MaxDocs : LoadDocuments(d)
    \/ \E n \in ChunkCounts : SplitDocuments(n)
    \/ DeleteDir
    \/ RmtreeFails
    \/ BatchOk
    \/ \E created \in BOOLEAN : BatchFail(created)
    \/ BuildReturn
    \/ FallbackStart
    \/ ExposeRetriever
    \/ ExposeFails

Spec == Init /\ [][Next]_vars

\* create_vectorstore_in_batches on its own: called with any number of chunks
\* up to MaxChunks against an absent primary directory.
InitBatch ==
    /\ disk = [d \in Dirs |-> NoDir]
    /\ retriever = RetrieverNone
    /\ pc = "build"
    /\ force_rebuild = FALSE
    /\ gate = "ABSENT"
    /\ documents = 1
    /\ \E n \in 0..MaxChunks : texts = Range(n)
    /\ persist_directory = CHROMA_DIR
    /\ batch_num = 0
    /\ vectorstore = None
    /\ attempts = <<NewAttempt(CHROMA_DIR)>>
    /\ trace = <<"load", "chunk", "index">>
    /\ screen = {}
    /\ runs = 1
    /\ embedCalls = 0
    /\ session0 = RetrieverNone
    /\ FormatIdle /\ SynthIdle /\ LoaderIdle /\ ChatIdle

NextBatch ==
    \/ BatchOk
    \/ \E created \in BOOLEAN : BatchFail(created)
    \/ BuildReturn

SpecBatch == InitBatch /\ [][NextBatch]_vars

----------------------------------------------------------------------------
(* format_document_source applied to one document *)

InitFormat ==
    /\ StartupIdle
    /\ SynthIdle /\ LoaderIdle /\ ChatIdle
    /\ document \in Documents
    /\ source_key = NoSourceKey
    /\ called = "none"

FormatDocumentSource ==
    /\ called = "none"
    /\ source_key' = FormatSource(document)
    /\ called' = "format"
    /\ UNCHANGED <<startupVars, loaderVars, chatVars, llm_response,
                   answer_text, content, document>>

NextFormat == FormatDocumentSource

SpecFormat == InitFormat /\ [][NextFormat]_vars

----------------------------------------------------------------------------
(* The display functions applied to one payload *)

InitSynth ==
    /\ StartupIdle
    /\ FormatIdle /\ LoaderIdle /\ ChatIdle
    /\ llm_response \in Payloads \cup {OtherPayload}
    /\ answer_text = NoneText
    /\ content = NoContent
    /\ called = "none"

\* content = display_search_llm_response(llm_response)
DisplaySearch ==
    /\ called = "none"
    /\ LET r == CatchAll(SearchBody(llm_response))
       IN /\ content' = r.content
          /\ answer_text' = r.answer_text
          /\ called' = IF r.raised THEN "raised" ELSE "search"
    /\ UNCHANGED <<startupVars, formatVars, loaderVars, chatVars, llm_response>>

\* content = display_contact_llm_response(llm_response)
DisplayContact ==
    /\ called = "none"
    /\ LET r == CatchAll(ContactBody(llm_response))
       IN /\ content' = r.content
          /\ answer_text' = r.answer_text
          /\ called' = IF r.raised THEN "raised" ELSE "contact"
    /\ UNCHANGED <<startupVars, formatVars, loaderVars, chatVars, llm_response>>

NextSynth == DisplaySearch \/ DisplayContact

SpecSynth == InitSynth /\ [][NextSynth]_vars

----------------------------------------------------------------------------
(* load_documents applied to one directory listing *)

InitLoader ==
    /\ StartupIdle
    /\ FormatIdle /\ SynthIdle /\ ChatIdle
    /\ files \in {l \in Listings(MaxFiles) : DistinctPaths(l)}
    /\ file_idx = 1
    /\ loaded = <<>>

\* The entry is a directory or has an unsupported suffix: nothing happens.
SkipEntry ==
    /\ called = "none"
    /\ file_idx <= Len(files)
    /\ ~Readable(files[file_idx])
    /\ file_idx' = file_idx + 1
    /\ UNCHANGED <<startupVars, synthVars, formatVars, chatVars, files, loaded>>

\* The reader returns: the documents are tagged and appended.
ReadFile ==
    /\ called = "none"
    /\ file_idx <= Len(files)
    /\ Readable(files[file_idx])
    /\ files[file_idx].ok
    /\ loaded' = loaded \o LoadFile(files[file_idx])
    /\ file_idx' = file_idx + 1
    /\ UNCHANGED <<startupVars, synthVars, formatVars, chatVars, files>>

\* An except clause that lets the exception leave load_documents.
ReadFails_Abort ==
    /\ called = "none"
    /\ file_idx <= Len(files)
    /\ Readable(files[file_idx])
    /\ ~files[file_idx].ok
    /\ called' = "raised"
    /\ UNCHANGED <<startupVars, formatVars, chatVars, loaderVars,
                   llm_response, answer_text, content>>

\* The reader raises: except Exception logs the error and continues.
ReadFails ==
    /\ called = "none"
    /\ file_idx <= Len(files)
    /\ Readable(files[file_idx])
    /\ ~files[file_idx].ok
    /\ file_idx' = file_idx + 1
    /\ UNCHANGED <<startupVars, synthVars, formatVars, chatVars, files, loaded>>

\* return documents
ReturnDocuments ==
    /\ called = "none"
    /\ file_idx = Len(files) + 1
    /\ called' = "load_documents"
    /\ UNCHANGED <<startupVars, formatVars, chatVars, loaderVars,
                   llm_response, answer_text, content>>

NextLoader == SkipEntry \/ ReadFile \/ ReadFails \/ ReturnDocuments

SpecLoader == InitLoader /\ [][NextLoader]_vars

----------------------------------------------------------------------------
(* Chat handling: the script runs that follow a submitted chat input *)

MaxQueries == 2

\* Texts the user may submit.
Queries == {"q1", "q2"}

\* What the start-up section of a run leaves behind when it does not stop
\* the script: with no loadable document the retriever of the session stays
\* as it was and a warning is shown, otherwise a retriever is stored.
StartupOutcomes(prev) ==
    {[retriever |-> prev, screen |-> {Plain("WARN_NO_DOCUMENTS")}]}
    \cup {[retriever |-> as_retriever(d), screen |-> {}] : d \in Dirs}

\* The keys initialize_session_state leaves in st.session_state.
SessionKeys == {"retriever", "mode", "messages"}

\* Texts of the exceptions the session-state accesses may raise.
Exceptions == {"EXC_TEXT_1", "EXC_TEXT_2"}
NoException == ""

\* utils.validate_environment() for a session holding `keys`, e being the
\* exception raised inside its try block (NoException when none is): the
\* value returned and the messages rendered.
validate_environment(keys, e) ==
    IF e # NoException
    THEN [ok |-> FALSE, shown |-> {WithDetail("VALIDATE_ENVIRONMENT_ERROR", e)}]
    ELSE IF "retriever" \notin keys
    THEN [ok |-> FALSE, shown |-> {Plain("RETRIEVER_NOT_INITIALIZED")}]
    ELSE IF "mode" \notin keys
    THEN [ok |-> FALSE, shown |-> {Plain("MODE_NOT_SET")}]
    ELSE IF "messages" \notin keys
    THEN [ok |-> FALSE, shown |-> {Plain("MESSAGES_NOT_INITIALIZED")}]
    ELSE [ok |-> TRUE, shown |-> {}]

\* Values qa_chain.invoke may return: a dict with result and
\* source_documents.
ChainResponses ==
    {Payload("dict", {"result", "source_documents"}, r, NoneText, sd) :
        r \in {Str(<<"a">>), Str(NO_RELEVANT_DOCS_CONTACT)},
        sd \in {<<>>, <<DocA, DocB, DocA>>}}

\* The external calls of get_llm_response, in the order it makes them.
QueryOps == <<"ChatOpenAI", "RetrievalQA.from_chain_type", "qa_chain.invoke">>

\* The first n of them, made in run r.
CallsUpTo(n, r) == [i \in 1..n |-> [run |-> r, op |-> QueryOps[i]]]

\* The state when the first run has passed its start-up section.
InitChat ==
    /\ disk = [d \in Dirs |-> NoDir]
    /\ \E o \in StartupOutcomes(RetrieverNone) :
          retriever = o.retriever /\ screen = o.screen
    /\ pc = "chat"
    /\ force_rebuild = FALSE
    /\ gate = "none"
    /\ documents = 0
    /\ texts = <<>>
    /\ persist_directory = None
    /\ batch_num = 0
    /\ vectorstore = None
    /\ attempts = <<>>
    /\ trace = <<>>
    /\ runs = 1
    /\ embedCalls = 0
    /\ session0 = RetrieverNone
    /\ FormatIdle /\ SynthIdle /\ LoaderIdle /\ ChatIdle

\* Start-up variables a run of the chat model leaves alone.
chatFrame == <<disk, force_rebuild, gate, documents, texts, persist_directory,
               batch_num, vectorstore, attempts, trace, embedCalls, session0,
               formatVars, loaderVars, answer_text, called>>

\* The user picks a mode in the sidebar: the script reruns without a chat
\* input.
SelectMode(m, o) ==
    /\ pc \in {"chat", "stopped"}
    /\ validate_environment(SessionKeys, NoException).ok
    /\ m # mode
    /\ mode' = m
    /\ retriever' = o.retriever
    /\ screen' = o.screen
    /\ pc' = "chat"
    /\ chat_message' = NoMessage
    /\ UNCHANGED <<chatFrame, runs, llm_response, content, messages,
                   queryCalls>>

\* The user submits q: the script reruns, passes its start-up section and
\* enters the chat handling with chat_message = q.
Submit(q, o) ==
    /\ pc \in {"chat", "stopped"}
    /\ validate_environment(SessionKeys, NoException).ok
    /\ runs < MaxQueries + 1
    /\ runs' = runs + 1
    /\ retriever' = o.retriever
    /\ screen' = o.screen
    /\ chat_message' = q
    /\ pc' = "query"
    /\ UNCHANGED <<chatFrame, llm_response, content, mode, messages,
                   queryCalls>>

\* A rerun in which validate_environment() returns False after e was raised
\* inside it: main.py calls st.stop() before the chat input is read.
ValidationStops(o, e) ==
    /\ pc \in {"chat", "stopped"}
    /\ LET v == validate_environment(SessionKeys, e)
       IN /\ ~v.ok
          /\ screen' = o.screen \cup v.shown
    /\ retriever' = o.retriever
    /\ pc' = "stopped"
    /\ chat_message' = NoMessage
    /\ UNCHANGED <<chatFrame, runs, llm_response, content, mode, messages,
                   queryCalls>>

\* except Exception in main.py: log, render the fixed message, st.stop().
QueryError ==
    /\ screen' = screen \cup {build_error_message("GET_LLM_RESPONSE_ERROR_MESSAGE")}
    /\ pc' = "stopped"
    /\ UNCHANGED <<llm_response, content, messages>>

\* get_llm_response that answers a missing retriever with an empty result.
RetrieverMissing_EmptyResult ==
    /\ pc = "query"
    /\ retriever = RetrieverNone
    /\ llm_response' = Payload("dict", {"result", "source_documents"},
                               Str(<<>>), NoneText, <<>>)
    /\ pc' = "display"
    /\ UNCHANGED <<chatFrame, runs, retriever, screen, content, mode,
                   messages, queryCalls, chat_message>>

\* if not st.session_state.retriever: raise ValueError
RetrieverMissing ==
    /\ pc = "query"
    /\ retriever = RetrieverNone
    /\ QueryError
    /\ UNCHANGED <<chatFrame, runs, retriever, mode, queryCalls, chat_message>>

\* The n-th external call of get_llm_response raises.
QueryFails(n) ==
    /\ pc = "query"
    /\ retriever # RetrieverNone
    /\ queryCalls' = queryCalls \o CallsUpTo(n, runs)
    /\ QueryError
    /\ UNCHANGED <<chatFrame, runs, retriever, mode, chat_message>>

\* llm_response = utils.get_llm_response(chat_message)
QueryOk(p) ==
    /\ pc = "query"
    /\ retriever # RetrieverNone
    /\ queryCalls' = queryCalls \o CallsUpTo(Len(QueryOps), runs)
    /\ llm_response' = p
    /\ pc' = "display"
    /\ UNCHANGED <<chatFrame, runs, retriever, screen, content, mode,
                   messages, chat_message>>

\* The try body of the display function of the mode; renders is false when
\* one of its st.markdown calls raises.
DisplayBody(renders) ==
    IF ~renders THEN Raised(NoneText)
    ELSE IF mode = ANSWER_MODE_1 THEN SearchBody(llm_response)
    ELSE ContactBody(llm_response)

\* The display function of the mode returns content, which is the fixed
\* display-error text (also rendered with st.error) when its body raised;
\* the user message and the assistant message are appended to the
\* conversation log.
DisplayAnswer(renders) ==
    /\ pc = "display"
    /\ LET body == DisplayBody(renders)
           r == CatchAll(body)
       IN /\ content' = r.content
          /\ screen' = IF body.raised
                       THEN screen \cup {Plain("DISPLAY_ERROR")}
                       ELSE screen
          /\ messages' = messages \o
                <<[role |-> "user", content |-> chat_message],
                  [role |-> "assistant", content |-> r.content]>>
    /\ pc' = "chat"
    /\ UNCHANGED <<chatFrame, runs, retriever, llm_response, mode,
                   queryCalls, chat_message>>

\* An exception leaves the display section (the except clause of the
\* display function raising in turn): main.py logs it, renders the fixed
\* message and calls st.stop() before the log is appended to.
DisplayRaises ==
    /\ pc = "display"
    /\ screen' = screen \cup {build_error_message("DISP_ANSWER_ERROR_MESSAGE")}
    /\ pc' = "stopped"
    /\ UNCHANGED <<chatFrame, runs, retriever, llm_response, content, mode,
                   messages, queryCalls, chat_message>>

NextChat ==
    \/ \E m \in {ANSWER_MODE_1, ANSWER_MODE_2}, o \in StartupOutcomes(retriever) :
          SelectMode(m, o)
    \/ \E q \in Queries, o \in StartupOutcomes(retriever) : Submit(q, o)
    \/ \E o \in StartupOutcomes(retriever), e \in Exceptions :
          ValidationStops(o, e)
    \/ RetrieverMissing
    \/ \E n \in 1..Len(QueryOps) : QueryFails(n)
    \/ \E p \in ChainResponses : QueryOk(p)
    \/ \E renders \in BOOLEAN : DisplayAnswer(renders)
    \/ DisplayRaises

SpecChat == InitChat /\ [][NextChat]_vars

TypeOK ==
    /\ pc \in {"idle", "gate", "load", "chunk", "delete", "build", "fallback",
               "expose", "done", "stopped", "chat", "query", "display"}
    /\ gate \in {"none", "REUSABLE", "STALE", "ABSENT", "FORCED"}
    /\ runs \in 0..MaxRuns
    /\ vectorstore \in Dirs \cup {None}
    /\ retriever.vectorstore \in Dirs \cup {None}
    /\ Len(attempts) <= 2

----------------------------------------------------------------------------
(* Properties *)

RebuildGates == {"ABSENT", "STALE", "FORCED"}

\* The index holds every chunk of the build that created it, once each.
Complete(ix) ==
    /\ ix.exists
    /\ Len(ix.content) = ix.builtFrom
    /\ {ix.content[i] : i \in 1..Len(ix.content)} = 1..ix.builtFrom

C2_NoPartialIndexExposed ==
    (pc = "done" /\ retriever # RetrieverNone) =>
        Complete(disk[retriever.vectorstore])

\* C3 (as claimed): every normal return of a run that took the rebuild path
\* has run the indexer and exposes a retriever over the index built by it.
C3_Original ==
    (pc = "done" /\ gate \in RebuildGates) =>
        /\ "index" \in {trace[i] : i \in 1..Len(trace)}
        /\ attempts # <<>>
        /\ retriever = as_retriever(Last(attempts).dir)

C3_AtReturn ==
    (pc = "done" /\ gate \in RebuildGates) =>
        IF documents = 0
        THEN /\ trace = <<"load">>
             /\ attempts = <<>>
             /\ retriever = session0
             /\ Plain("WARN_NO_DOCUMENTS") \in screen
        ELSE /\ trace \in {<<"load", "chunk", "index">>,
                           <<"load", "chunk", "rmtree", "index">>}
             /\ attempts # <<>>
             /\ Last(attempts).result = "returned"
             /\ retriever = as_retriever(Last(attempts).dir)
             /\ disk[Last(attempts).dir].exists
             /\ disk[Last(attempts).dir].content = texts

C3_EntersRebuild ==
    (pc = "gate" /\ pc' # "gate" /\ pc' # "stopped" /\ (force_rebuild \/ ~disk[CHROMA_DIR].exists))
        => (pc' = "load" /\ gate' \in RebuildGates)

C3_DeletesOld ==
    (pc = "delete" /\ pc' = "build") => ~disk'[CHROMA_DIR].exists

\* C3 (amended): a run whose index is absent, stale or force-rebuilt enters
\* the rebuild path and runs the loader; if the loader returns no document the
\* run warns and returns, leaving directory and session retriever untouched;
\* otherwise it runs the chunker, deletes the existing directory, runs the
\* batched indexer, and on normal return exposes a retriever over the index
\* built in this run.
C3_RebuildPath ==
    /\ []C3_AtReturn
    /\ [][C3_EntersRebuild /\ C3_DeletesOld]_vars

\* A forced rebuild over an existing directory returned normally.
C3_Witness ==
    /\ pc = "done" /\ gate = "FORCED" /\ documents > 0
    /\ trace = <<"load", "chunk", "rmtree", "index">>
    /\ retriever = as_retriever(CHROMA_DIR)
    /\ Len(texts) = 70

\* C4: a failure to open or smoke-query the existing index is not fatal: the
\* run continues with the loader, and any later fatal error of the run comes
\* from a later stage.
C4_StaleNotFatal ==
    gate = "STALE" =>
        \/ pc = "load" /\ trace = <<>> /\ screen = {}
        \/ trace # <<>> /\ trace[1] = "load"

\* After a failed open the index was rebuilt and exposed.
C4_Witness ==
    /\ gate = "STALE" /\ pc = "done"
    /\ trace = <<"load", "chunk", "rmtree", "index">>
    /\ retriever = as_retriever(CHROMA_DIR)
    /\ disk[CHROMA_DIR].content = texts /\ Len(texts) = 120

\* Number of batches a build over n chunks needs, stated without the code's
\* arithmetic: the least k with k * B >= n.
BatchesNeeded(n) ==
    CHOOSE k \in 0..n : k * EMBEDDING_BATCH_SIZE >= n
                        /\ \A j \in 0..(k - 1) : j * EMBEDDING_BATCH_SIZE < n

C5_Boundaries(a) ==
    LET n == Len(texts)
        B == EMBEDDING_BATCH_SIZE
    IN /\ \A i \in 1..Len(a.calls) :
            LET c == a.calls[i]
                hi == IF i * B <= n THEN i * B ELSE n
            IN /\ c.batch = i - 1
               /\ c.first = (i - 1) * B + 1
               /\ c.last = hi
               /\ c.docs = [j \in 1..(hi - (i - 1) * B) |-> texts[(i - 1) * B + j]]
               /\ Len(c.docs) >= 1 /\ Len(c.docs) <= B
               /\ (i < BatchesNeeded(n) => Len(c.docs) = B)
       /\ Len(a.calls) <= BatchesNeeded(n)
       /\ a.result = "returned" =>
            /\ Len(a.calls) = BatchesNeeded(n)
            /\ \A ch \in 1..n :
                 Cardinality({i \in 1..Len(a.calls) :
                                a.calls[i].first <= ch /\ ch <= a.calls[i].last}) = 1
            /\ n = 120 =>
                 /\ [i \in 1..Len(a.calls) |-> Len(a.calls[i].docs)] = <<50, 50, 20>>
                 /\ a.calls[2].first = 51 /\ a.calls[2].docs[1] = texts[51]

\* C5: a build over n chunks issues exactly ceil(n/B) batches; batch i holds
\* exactly the chunks i*B .. min((i+1)*B, n)-1 (0-based), every batch but the
\* last has size B, every chunk is in exactly one batch, and 120 chunks with
\* B = 50 give batches of 50, 50, 20 with chunk 51 starting batch 2.
C5_BatchBoundaries == \A x \in 1..Len(attempts) : C5_Boundaries(attempts[x])

\* A build over 120 chunks returned after three batches.
C5_Witness ==
    /\ Len(texts) = 120 /\ pc = "expose"
    /\ Last(attempts).result = "returned" /\ Len(Last(attempts).calls) = 3

\* C6: in one build attempt only the first batch creates the index
\* (from_documents); every later batch is an add_documents on the handle the
\* first batch returned, bound to the same directory.
C6_CreatedOnce ==
    /\ \A x \in 1..Len(attempts) : \A i \in 1..Len(attempts[x].calls) :
          /\ attempts[x].calls[i].op = "from_documents" <=> i = 1
          /\ i > 1 => attempts[x].calls[i].op = "add_documents"
    /\ (pc = "build" /\ batch_num > 0) => vectorstore = persist_directory

\* A three-batch attempt returned: one create, two incremental inserts.
C6_Witness ==
    /\ attempts # <<>> /\ Last(attempts).result = "returned"
    /\ [i \in 1..Len(Last(attempts).calls) |-> Last(attempts).calls[i].op]
         = <<"from_documents", "add_documents", "add_documents">>

C7_Ordered ==
    /\ \A x \in 1..Len(attempts) : \A i \in 1..Len(attempts[x].calls) :
          attempts[x].calls[i].batch = i - 1
    \* batch batch_num is issued only when batches 0..batch_num-1 are committed
    /\ pc = "build" =>
          /\ Len(Last(attempts).calls) = batch_num
          /\ disk[persist_directory].content =
                SubSeq(texts, 1, Min(batch_num * EMBEDDING_BATCH_SIZE, Len(texts)))
    \* a raised attempt: every batch before the failing one is committed, the
    \* failing one is not, and no handle was returned
    /\ (attempts # <<>> /\ Last(attempts).result = "raised") =>
          /\ vectorstore = None
          /\ pc \in {"fallback", "stopped"}
          /\ Len(Last(attempts).calls) = batch_num + 1
          /\ disk[persist_directory].content =
                SubSeq(texts, 1, batch_num * EMBEDDING_BATCH_SIZE)

C7_NoBatchAfterFailure ==
    \A x \in 1..Len(attempts) :
        (attempts[x].result = "raised" /\ runs' = runs) =>
            (Len(attempts') >= x /\ attempts'[x] = attempts[x])

\* C7: batches are issued in ascending order, each after the previous one
\* completed; a failing batch k raises out of the build at once: batches
\* before k are committed, none after k is issued, no handle is returned.
C7_SequentialAbort == []C7_Ordered /\ [][C7_NoBatchAfterFailure]_vars

\* The primary build failed at its third batch after two committed batches.
C7_Witness ==
    /\ pc = "fallback" /\ Len(texts) = 120
    /\ attempts[1].result = "raised" /\ Len(attempts[1].calls) = 3
    /\ Len(disk[CHROMA_DIR].content) = 100

\* C8: the fallback directory is used iff the primary build raised; the retry
\* is one whole build from batch 0 over the same chunks against a directory
\* that did not exist; on success the retriever is over the fallback index.
C8_Fallback ==
    /\ Len(attempts) <= 2
    /\ \A x \in 1..Len(attempts) :
          /\ attempts[x].dir \in TempDirs <=> x = 2
          /\ attempts[x].dir = CHROMA_DIR <=> x = 1
    /\ Len(attempts) = 2 => attempts[1].result = "raised"
    /\ (attempts # <<>> /\ attempts[1].result = "raised") =>
          (pc = "fallback" \/ Len(attempts) = 2)
    /\ \A u \in TempDirs :
          disk[u].exists =>
             \E r \in 1..runs : r = u /\ (r = runs => Len(attempts) = 2)
    /\ Len(attempts) = 2 =>
          LET a == attempts[2]
          IN /\ a.calls # <<>> => (a.calls[1].batch = 0 /\ a.calls[1].first = 1)
             /\ disk[a.dir].content =
                  SubSeq(texts, 1, Len(disk[a.dir].content))
             /\ a.result = "returned" => disk[a.dir].content = texts
             /\ pc = "done" => /\ a.result = "returned"
                               /\ retriever = as_retriever(a.dir)
                               /\ a.dir # CHROMA_DIR

\* The primary build failed midway and the retry built all chunks in the
\* fallback directory, which the retriever is bound to.
C8_Witness ==
    /\ pc = "done" /\ Len(attempts) = 2 /\ Len(texts) = 120
    /\ Len(attempts[1].calls) = 2
    /\ retriever = as_retriever(attempts[2].dir)
    /\ disk[attempts[2].dir].content = texts
    /\ Len(disk[CHROMA_DIR].content) = 50

C9_State ==
    /\ (Len(attempts) = 2 /\ attempts[2].result = "raised") => pc = "stopped"
    /\ pc = "stopped" =>
          /\ build_error_message("INITIALIZE_ERROR_MESSAGE") \in screen
          /\ retriever = session0
    /\ build_error_message("INITIALIZE_ERROR_MESSAGE") \in screen => pc = "stopped"

C9_Halts == pc = "stopped" => pc' = "gate" /\ runs' = runs + 1

\* C9: when the rebuild cannot produce an index (primary and fallback build
\* both raise) the error leaves setup_vector_store and initialize: the run
\* stores no retriever in the session (none at all in a new session), shows
\* the initialisation error message and stops; nothing but a new script run
\* follows.
C9_RebuildFailureFatal == []C9_State /\ [][C9_Halts]_vars

\* Both builds of the first run of a session failed.
C9_Witness ==
    /\ pc = "stopped" /\ Len(attempts) = 2
    /\ attempts[1].result = "raised" /\ attempts[2].result = "raised"
    /\ retriever = RetrieverNone
    /\ screen = {build_error_message("INITIALIZE_ERROR_MESSAGE")}

\* Orders in which k batches can be processed.
BatchOrders(k) ==
    {p \in [1..k -> 0..(k - 1)] : \A i, j \in 1..k : p[i] = p[j] => i = j}

RECURSIVE ContentInOrder(_, _, _)
\* Content of an index that received the batches of t in order p[1..i].
ContentInOrder(t, p, i) ==
    IF i = 0 THEN <<>> ELSE ContentInOrder(t, p, i - 1) \o BatchTexts(t, p[i])

\* The sequence holds exactly the chunks of t, once each.
SameChunks(stored, t) ==
    /\ Len(stored) = Len(t)
    /\ {stored[i] : i \in 1..Len(stored)} = {t[i] : i \in 1..Len(t)}

\* C10: after a build attempt returned, the index at its directory holds
\* exactly the chunks of texts, once each, and processing the batches in any
\* other order would give the same content.
C10_ExactContent ==
    \A x \in 1..Len(attempts) :
        attempts[x].result = "returned" =>
            /\ SameChunks(disk[attempts[x].dir].content, texts)
            /\ \A p \in BatchOrders(TotalBatches(Len(texts))) :
                  SameChunks(ContentInOrder(texts, p, TotalBatches(Len(texts))), texts)

\* A rebuild over an existing directory returned with all 120 chunks.
C10_Witness ==
    /\ pc = "expose" /\ Len(texts) = 120 /\ attempts[1].result = "returned"
    /\ "rmtree" \in {trace[i] : i \in 1..Len(trace)}
    /\ SameChunks(disk[CHROMA_DIR].content, texts)

----------------------------------------------------------------------------
(* Properties of the response synthesizer *)

IsCiteLine(l) == l.tag \in {"MAIN_REFERENCE", "ITEM"}

\* The citations of a returned content, in rendering order.
Cites(c) ==
    LET ls == SelectSeq(c, IsCiteLine)
    IN [i \in 1..Len(ls) |-> ls[i].cite]

\* source_documents of the payload, [] when the field is absent.
PayloadDocs(p) == IF "source_documents" \in p.keys THEN p.source_documents ELSE <<>>

\* Position of the first document of sd whose citation string is c.
FirstSeen(c, sd) ==
    CHOOSE i \in 1..Len(sd) :
        /\ FormatSource(sd[i]) = c
        /\ \A j \in 1..(i - 1) : FormatSource(sd[j]) # c

\* The content carries a citation list.
ListsCitations ==
    /\ PayloadDocs(llm_response) # <<>>
    /\ \/ called = "search"
       \/ called = "contact" /\ content # <<>> /\ content[1].tag = "ANSWER"

\* C11: in locate mode and in contact mode the rendered citation list holds
\* each distinct citation string of source_documents exactly once, in the
\* order of first occurrence; [A(p1), B, A(p1), C] renders as [A(p1), B, C].
C11_DedupOrder ==
    ListsCitations =>
        LET sd == PayloadDocs(llm_response)
            cs == Cites(content)
        IN /\ {cs[i] : i \in 1..Len(cs)} = {FormatSource(sd[i]) : i \in 1..Len(sd)}
           /\ \A i, j \in 1..Len(cs) : i < j =>
                 /\ cs[i] # cs[j]
                 /\ FirstSeen(cs[i], sd) < FirstSeen(cs[j], sd)
           /\ sd = <<DocA, DocB, DocA, DocC>> =>
                 cs = <<FormatSource(DocA), FormatSource(DocB), FormatSource(DocC)>>

\* Contact mode rendered [A(p1), B, A(p1), C] as three citations.
C11_Witness ==
    /\ called = "contact"
    /\ PayloadDocs(llm_response) = <<DocA, DocB, DocA, DocC>>
    /\ Len(Cites(content)) = 3
    /\ content[Len(content)].n = 3

\* C12: in contact mode, whenever the extracted answer text contains the
\* no-relevant-info phrase (case-insensitively), the returned content is
\* exactly the canonical message: no answer text, no citation list, whatever
\* the source documents are.
C12_NoInfoShortCircuit ==
    (/\ called = "contact"
     /\ ~answer_text.null
     /\ \E i \in 1..Len(answer_text.toks) :
           /\ i + 1 <= Len(answer_text.toks)
           /\ LowerTok(answer_text.toks[i]) = NO_RELEVANT_DOCS_CONTACT[1]
           /\ LowerTok(answer_text.toks[i + 1]) = NO_RELEVANT_DOCS_CONTACT[2])
        => content = <<Fixed("NO_RELEVANT_DOCS_CONTACT")>>

\* The phrase followed by extra text, with a source document in the payload.
C12_Witness ==
    /\ called = "contact"
    /\ llm_response.shape = "dict"
    /\ llm_response.result = Str(NO_RELEVANT_DOCS_CONTACT \o <<"EXTRA">>)
    /\ llm_response.source_documents = <<DocA>>
    /\ content = <<Fixed("NO_RELEVANT_DOCS_CONTACT")>>

\* The payload is neither a mapping nor an object with a result or answer
\* attribute.
Unrecognized(p) ==
    \/ p.shape = "other"
    \/ p.shape = "object" /\ "result" \notin p.keys /\ "answer" \notin p.keys

\* C13: neither display function raises for any payload, and in contact mode
\* a payload that is neither a mapping nor exposes result/answer yields the
\* unexpected-format content.
C13_UnrecognizedPayload ==
    /\ called # "raised"
    /\ called \in {"search", "contact"} => content # NoContent
    /\ (called = "contact" /\ Unrecognized(llm_response)) =>
          content = <<Fixed("UNEXPECTED_FORMAT")>>

\* A payload that is no mapping and has no attributes, in contact mode.
C13_Witness ==
    /\ called = "contact"
    /\ llm_response = OtherPayload
    /\ content = <<Fixed("UNEXPECTED_FORMAT")>>

\* C14 (as claimed): for a mapping and for an object exposing result or
\* answer, the extracted answer is the result field when present, otherwise
\* the answer field, and the not-found default when both are absent.
C14_AnswerExtraction ==
    (called = "contact" /\ ~Unrecognized(llm_response)) =>
        answer_text = IF "result" \in llm_response.keys THEN llm_response.result
                      ELSE IF "answer" \in llm_response.keys THEN llm_response.answer
                      ELSE Str(ANSWER_NOT_FOUND)

\* C16: in locate mode, for either payload shape, absent or empty
\* source_documents give exactly the no-relevant-documents message; non-empty
\* source_documents never give it and list the primary reference.
C16_LocateMode ==
    called = "search" =>
        LET sd == PayloadDocs(llm_response)
        IN IF sd = <<>>
           THEN content = <<Fixed("NO_RELEVANT_DOCS_SEARCH")>>
           ELSE /\ content # <<Fixed("NO_RELEVANT_DOCS_SEARCH")>>
                /\ \A i \in 1..Len(content) : content[i].tag # "NO_RELEVANT_DOCS_SEARCH"
                /\ \E i \in 1..Len(content) :
                      /\ content[i].tag = "MAIN_REFERENCE"
                      /\ content[i].cite = FormatSource(sd[1])

\* An attribute object with one source document in locate mode.
C16_Witness ==
    /\ called = "search"
    /\ llm_response.shape = "object"
    /\ llm_response.source_documents = <<DocB>>
    /\ content[3] = Line("MAIN_REFERENCE", 0, NoneText, FormatSource(DocB))

----------------------------------------------------------------------------
(* Properties of format_document_source *)

\* The file name of a document: source_file, else the last component of
\* source, else the unknown-file literal.
FileNameOf(d) ==
    IF "source_file" \in d.keys THEN d.source_file
    ELSE IF "source" \in d.keys THEN d.source.name
    ELSE UnknownFile

\* C15: a citation is the file name only, unless the name ends in .pdf: then
\* the page suffix is appended with N = page_number if present, else the
\* 0-based page + 1; a PDF with neither field and every other file get no
\* suffix.  plan.pdf with page_number 4 renders with page 4, notes.txt bare.
C15_CitationFormat ==
    (called = "format" /\ document.hasMeta) =>
        LET name == FileNameOf(document)
            pdf == name.ext \in {".pdf", ".PDF"}
            hasPn == "page_number" \in document.keys
            hasPg == "page" \in document.keys
        IN /\ source_key.file_name = name
           /\ ~pdf => source_key.page_info = NoPageInfo
           /\ (pdf /\ hasPn) =>
                 source_key.page_info =
                    [fmt |-> PAGE_DISPLAY_FORMAT, page |-> document.page_number]
           /\ (pdf /\ ~hasPn /\ hasPg) =>
                 source_key.page_info =
                    [fmt |-> PAGE_DISPLAY_FORMAT, page |-> document.page + 1]
           /\ (pdf /\ ~hasPn /\ ~hasPg) => source_key.page_info = NoPageInfo
           /\ (name = [base |-> "plan", ext |-> ".pdf"] /\ hasPn
                 /\ document.page_number = 4) => source_key.page_info.page = 4
           /\ name = [base |-> "notes", ext |-> ".txt"] =>
                 source_key = [file_name |-> name, page_info |-> NoPageInfo]

\* plan.pdf carrying page_number 4 and a 0-based page 2 is cited with page 4.
C15_Witness ==
    /\ called = "format"
    /\ document = Doc({"source_file", "page_number", "page"},
                      [base |-> "plan", ext |-> ".pdf"], NoPath, 4, 2)
    /\ source_key = [file_name |-> [base |-> "plan", ext |-> ".pdf"],
                     page_info |-> [fmt |-> PAGE_DISPLAY_FORMAT, page |-> 4]]

----------------------------------------------------------------------------
(* Properties of load_documents *)

\* The documents of the result whose reader-recorded path is p.
UnitsOf(p) == SelectSeq(loaded, LAMBDA u : u.source = p)

\* The number of documents entry k of the listing has contributed.
Contributed(k) ==
    IF k < file_idx /\ Readable(files[k]) /\ files[k].ok
    THEN files[k].units
    ELSE 0

\* C17: load_documents never raises, and at every point of the scan, and so
\* at its return, the result holds exactly the documents of the supported
\* files read successfully so far: every document of such a file, in the
\* reader's order, none of a file whose read failed, none of a directory or
\* of a file with an unsupported suffix, and the documents of the files in
\* the order of the scan.
C17_PartialFailureTolerance ==
    /\ called # "raised"
    /\ \A k \in 1..Len(files) :
          /\ Len(UnitsOf(files[k].path)) = Contributed(k)
          /\ Suffix(files[k].path) = ".pdf" =>
                \A i \in 1..Len(UnitsOf(files[k].path)) :
                    UnitsOf(files[k].path)[i].page = i - 1
    /\ \A i \in 1..Len(loaded) :
          \E k \in 1..Len(files) : loaded[i].source = files[k].path
    /\ \A i, j \in 1..Len(loaded), k, l \in 1..Len(files) :
          /\ i < j
          /\ loaded[i].source = files[k].path
          /\ loaded[j].source = files[l].path
          => k <= l

\* load_documents has returned from a listing holding a file whose read
\* failed, a file with an unsupported suffix and a file read successfully,
\* and the result is that file's documents.
C17_Witness ==
    /\ called = "load_documents"
    /\ \E k \in 1..Len(files) : Readable(files[k]) /\ ~files[k].ok
    /\ \E k \in 1..Len(files) :
          files[k].is_file /\ Suffix(files[k].path) \notin SUPPORTED_EXTENSIONS
    /\ \E k \in 1..Len(files) :
          /\ Readable(files[k]) /\ files[k].ok /\ files[k].units = MaxUnits
          /\ Len(loaded) = MaxUnits

TypeTags ==
    [s \in SUPPORTED_EXTENSIONS |->
        IF s = ".pdf" THEN "PDF"
        ELSE IF s = ".docx" THEN "DOCX"
        ELSE IF s = ".csv" THEN "CSV"
        ELSE "TXT"]

C19_PageNormalization ==
    \A i \in 1..Len(loaded) :
        Suffix(loaded[i].source) = ".pdf" =>
            /\ "page_number" \in loaded[i].keys
            /\ loaded[i].page_number = loaded[i].page + 1
            /\ loaded[i].page_number >= 1

\* load_documents has returned the documents of a PDF of several pages: the
\* one of page 0 has page_number 1 and the last has the number of pages.
C19_Witness ==
    /\ called = "load_documents"
    /\ \E i, j \in 1..Len(loaded) :
          /\ loaded[i].file_type = "PDF" /\ loaded[j].file_type = "PDF"
          /\ loaded[i].source = loaded[j].source
          /\ loaded[i].page = 0 /\ loaded[i].page_number = 1
          /\ loaded[j].page = MaxUnits - 1 /\ loaded[j].page_number = MaxUnits

----------------------------------------------------------------------------
(* Properties of the chat handling *)

\* The external calls get_llm_response made in the current run.
CallsOfRun == SelectSeq(queryCalls, LAMBDA c : c.run = runs)

\* A query is being answered and the session holds no retriever.
C20_Unconfigured == pc = "query" /\ retriever = RetrieverNone

\* The step that answers it: no call is made, no payload and no content
\* are produced, the fixed failure message is rendered and the run stops.
C20_FailsFirst ==
    C20_Unconfigured =>
        /\ pc' = "stopped"
        /\ queryCalls' = queryCalls
        /\ build_error_message("GET_LLM_RESPONSE_ERROR_MESSAGE") \in screen'
        /\ llm_response' = llm_response
        /\ content' = content
        /\ messages' = messages

\* A stopped run does nothing more: the next step belongs to a new run.
C20_Stops ==
    pc = "stopped" =>
        /\ pc' \in {"chat", "query", "stopped"}
        /\ queryCalls' = queryCalls
        /\ messages' = messages

\* While the run is stopped on a query with a missing retriever, it has
\* made no call and shows the failure message.
C20_State ==
    pc = "stopped" /\ retriever = RetrieverNone /\ chat_message # NoMessage =>
        /\ CallsOfRun = <<>>
        /\ build_error_message("GET_LLM_RESPONSE_ERROR_MESSAGE") \in screen

\* C20: with no retriever in the session at query time, get_llm_response
\* fails before any language-model or retrieval call is made; the failure
\* message is rendered, no result (empty or not) is displayed or logged to
\* the conversation, and the handling of that query stops.
C20_ConfigurationError ==
    []C20_State /\ [][C20_FailsFirst /\ C20_Stops]_vars

\* A query submitted in question mode was stopped on the missing retriever.
C20_Witness ==
    /\ pc = "stopped"
    /\ retriever = RetrieverNone
    /\ chat_message \in Queries
    /\ mode = ANSWER_MODE_2
    /\ build_error_message("GET_LLM_RESPONSE_ERROR_MESSAGE") \in screen
    /\ queryCalls = <<>>
    /\ messages = <<>>

\* The messages of st.error / st.warning on the page of this run.
Rendered == screen

\* C21 (as claimed): every message rendered to the user consists of fixed
\* text only; in no reachable state does a rendered message carry the text
\* of an exception.
C21_NoExceptionText == \A m \in Rendered : m.detail = NoDetail

\* The display function answered with its fixed error text.
DisplayFailed(c) == c = <<Fixed("DISPLAY_ERROR")>>

\* The log has even length and alternates user / assistant.
C22_Alternates ==
    /\ Len(messages) % 2 = 0
    /\ \A i \in 1..Len(messages) :
          messages[i].role = IF i % 2 = 1 THEN "user" ELSE "assistant"

\* A step changes the log only by appending the user message and the
\* assistant content of a query whose answer was retrieved and displayed.
C22_AppendsOnSuccess ==
    messages' # messages =>
        /\ pc = "display"
        /\ ~DisplayFailed(content')
        /\ messages' = messages \o
              <<[role |-> "user", content |-> chat_message],
                [role |-> "assistant", content |-> content']>>

\* C22 (as claimed): a submitted query appends exactly two entries to the
\* log, the user message then the assistant content, and only after both
\* the retrieval and the display of the answer succeeded; when either
\* fails the log is unchanged; the log always has even length and
\* alternates user / assistant.
C22_LogIntegrity == []C22_Alternates /\ [][C22_AppendsOnSuccess]_vars

====
